---- MODULE Spec2Model ----
(***************************************************************************)
(* Model of the kindling race transport (getlantern/kindling).            *)
(*                                                                         *)
(* One RoundTrip of raceTransport: the registry's transports are gated by  *)
(* payload size, one worker goroutine per remaining transport connects in  *)
(* parallel, and the caller's goroutine consumes the ready connections one *)
(* at a time (src/race_transport.go:224-304).                              *)
(*                                                                         *)
(* The client around it: NewKindling sorts and applies its options to      *)
(* build the registry, NewHTTPClient hands out the race transport, and     *)
(* ReplaceTransport swaps a factory by name (src/kindling.go:262-565).     *)
(***************************************************************************)
EXTENDS Integers, Sequences, FiniteSets, TLC

\* ------------------------------------------------------------------ bounds
NumTransports == 2          \* transports in the registry
MaxLen == 2                 \* largest declared maxLength; bodies go up to MaxLen + 1

\* ------------------------------------------------------- program constants
retryTimes == 3             \* src/race_transport.go:254
priorityLogWriter == 0      \* src/kindling.go:276
\* Variant: the panic listener shares the log writer's priority.
priorityPanicListenerFirst == priorityLogWriter
priorityPanicListener == 1  \* src/kindling.go:277
defaultPriority == 1000     \* src/kindling.go:525
maxInsertion == 12          \* sort.Sort: ranges up to this length are insertion-sorted
timeoutSeconds == 60        \* src/race_transport.go:227 (1*time.Minute)

Statuses == {200, 503}      \* HTTP status codes a sub-transport may answer with
\* outcomes of rt.RoundTrip on a connection: an error, or a response with a status
SendOutcomes == {[ok |-> FALSE, status |-> 0]} \cup {[ok |-> TRUE, status |-> s] : s \in Statuses}
NoCause == [op |-> "none", who |-> 0]
NoResp == [from |-> 0, status |-> 0]          \* a nil *http.Response
NilErr == [kind |-> "nil", cause |-> NoCause] \* a nil error
NoResult == [resp |-> NoResp, err |-> [kind |-> "unset", cause |-> NoCause]]

VARIABLES
    transports,     \* kindling.transports: the registry, a sequence of [name, maxLength]
    bodyLen,        \* length of the request body
    sendOutcome,    \* what rt.RoundTrip of each transport's connection answers: an error or a status
    pc,             \* position of RoundTrip's goroutine: "start", "select", "sending", "done"
    iter,           \* completed iterations of the `for range retryTimes` loop
    cur,            \* transport whose connection was received from rtChan (0: none)
    wpc,            \* position of each worker goroutine
    httpErrors,     \* the atomic failure counter
    rtChan,         \* buffered channel of connected round trippers
    errCh,          \* buffered channel of errors
    ctxErr,         \* error of the caller's context / the timeout: "none", "canceled", "deadline"
    result,         \* what RoundTrip returned
    sent,           \* history: transports whose connection was handed the request, in order
    responses,      \* history: non-error responses returned by sub-transports, in order
    inflight,       \* transports with a rt.RoundTrip call in progress
    accounted,      \* history: the errors passed to errFunc, in the order they were counted
    listened,       \* messages handed to the panic listener, in order
    wfac,           \* d: the factory each worker goroutine was handed at its spawn and calls
    req,            \* the caller's request: URL, method, header, body
    bodyBytes,      \* the request body as RoundTrip buffered it
    cloned,         \* the clone made for the attempt in progress or last made
    waddr,          \* addr: what each worker passes to d.roundTripper(ctx, addr)
    deadline,       \* seconds of the context.WithTimeout RoundTrip derives (0: not yet derived)
    options,        \* the options passed to NewKindling, in the caller's order
    built,          \* NewKindling has returned
    applied,        \* history: the options in the order NewKindling applied them
    kcfg,           \* kindling.logWriter and kindling.panicListener (0: the default)
    client,         \* the race transport of the client NewHTTPClient returned
    replaceErr,     \* what the last ReplaceTransport call returned
    installed,      \* history: per name, the factory of the last successful ReplaceTransport
    mu,             \* kindling.roundTripperGeneratorsMutex: its holder and the holder's arguments
    cloneMu,        \* the mutex around request cloning is held
    cloning         \* the other RoundTrips that are cloning their request

vars == <<transports, bodyLen, sendOutcome, pc, iter, cur, wpc, httpErrors, rtChan,
          errCh, ctxErr, result, sent, responses, inflight, accounted, listened, wfac,
          req, bodyBytes, cloned, waddr, deadline, options, built, applied, kcfg, client, replaceErr, installed,
          mu, cloneMu, cloning>>

\* the state of the kindling value besides its registry
api == <<options, built, applied, kcfg, client, replaceErr, installed>>

\* the mutexes, and who is inside them
locks == <<mu, cloneMu, cloning>>

\* what a RoundTrip never writes
env == <<transports, bodyLen, sendOutcome, api, locks>>

\* the state of one RoundTrip
race == <<pc, iter, cur, wpc, httpErrors, rtChan, errCh, ctxErr, result, sent, responses,
          inflight, accounted, listened, wfac, req, bodyBytes, cloned, waddr, deadline, locks>>

\* the request and what RoundTrip derives from it before the fan-out
reqv == <<req, bodyBytes, waddr, deadline>>

\* --------------------------------------------------------------- registry
\* A transport takes part in the request unless its maxLength is exceeded.
Transports == DOMAIN transports

\* factories (roundTripperGenerator values): the one a transport was registered
\* with and the one given to ReplaceTransport
OrigFactory == "orig"
NewFactory == "f"
NoFactory == "none"

\* newTransport(name, maxLength, rtg)
newTransport(name, maxLength, rtg) == [name |-> name, maxLength |-> maxLength, rtg |-> rtg]

\* the limits a transport declares: none, or one of the two largest
Limits == {0} \cup {m \in (MaxLen - 1)..MaxLen : m > 0}
\* the body lengths of a request: empty, or around the largest limits
BodyLens == {0} \cup {b \in (MaxLen - 1)..(MaxLen + 1) : b > 0}

\* the registries of n transports as their options registered them
Registries(n) == [1..n -> [name : 1..n, maxLength : Limits, rtg : {OrigFactory}]]
UniqueNames(reg) == \A i, j \in DOMAIN reg : reg[i].name = reg[j].name => i = j

\* Variant: a body of exactly maxLength is refused.
GateStrict(t) == transports[t].maxLength = 0 \/ bodyLen < transports[t].maxLength

Gate(t) == transports[t].maxLength = 0 \/ bodyLen <= transports[t].maxLength

\* The generators the engine ranges over for this request.
roundTripperGenerators == {t \in Transports : Gate(t)}

\* Variant: the size of the whole registry, skipped transports included.
NumGeneratorsRegistrySize == Len(transports)

\* len(t.roundTripperGenerators): channel capacity and failure threshold.
NumGenerators == Cardinality(roundTripperGenerators)

\* Variant: the channels hold one message fewer than there are generators.
CapacityOneLess == IF NumGenerators > 0 THEN NumGenerators - 1 ELSE 0

\* make(chan ..., len(t.roundTripperGenerators)): the capacity of rtChan and
\* of errCh; a send on a channel holding that many messages blocks.
Capacity == NumGenerators

\* ---------------------------------------------------------------- options
\* a nil Transport
NilTransport == newTransport(0, 0, NoFactory)

\* newOptionWithPriority / newOption / emptyOption: what apply does, and the
\* priority NewKindling sorts by
WithLogWriter == [kind |-> "logWriter", priorityInt |-> priorityLogWriter,
                  transport |-> NilTransport]
WithPanicListener == [kind |-> "panicListener", priorityInt |-> priorityPanicListener,
                      transport |-> NilTransport]
WithTransport(tr) == [kind |-> "transport", priorityInt |-> defaultPriority, transport |-> tr]
emptyOption == [kind |-> "empty", priorityInt |-> priorityLogWriter, transport |-> NilTransport]

\* the names of the built-in transports, apart from any name a caller uses
fronted == NumTransports + 1
smart == NumTransports + 2
dnstt == NumTransports + 3
amp == NumTransports + 4
\* the maxLength of the "amp" transport
ampMaxLength == 6000

\* a collaborator (fronted.Fronted, dnstt.DNSTT, amp.Client): nil, or one
\* whose round trippers the transport hands out
Collaborators == {NoFactory, OrigFactory}

\* WithDomainFronting(f), WithDNSTunnel(d): a transport around the
\* collaborator, or emptyOption for a nil one
WithDomainFronting(f) ==
    IF f = NoFactory THEN emptyOption ELSE WithTransport(newTransport(fronted, 0, f))
WithDNSTunnel(d) ==
    IF d = NoFactory THEN emptyOption ELSE WithTransport(newTransport(dnstt, 0, d))

\* Variant: the "amp" transport declares no limit.
WithAMPCacheNoLimit(c) ==
    IF c = NoFactory THEN emptyOption ELSE WithTransport(newTransport(amp, 0, c))

\* WithAMPCache(c)
WithAMPCache(c) ==
    IF c = NoFactory THEN emptyOption
    ELSE WithTransport(newTransport(amp, ampMaxLength, c))

\* WithProxyless(domains...): apply creates the smart dialer and appends the
\* "smart" transport, or appends nothing when newSmartHTTPDialerFunc fails
WithProxyless(dialerErr) ==
    [kind |-> "proxyless", priorityInt |-> defaultPriority,
     transport |-> IF dialerErr THEN NilTransport ELSE newTransport(smart, 0, OrigFactory)]

\* the transports a caller registers: a name, and no limit or the largest one
CallerTransports ==
    {newTransport(n, m, OrigFactory) : n \in 1..NumTransports, m \in {0, MaxLen}}

\* the options a caller may pass; emptyOption is what WithDomainFronting,
\* WithDNSTunnel and WithAMPCache return for a nil collaborator
Options ==
    {WithLogWriter, WithPanicListener, emptyOption, WithTransport(NilTransport)}
        \cup {WithTransport(tr) : tr \in CallerTransports}

\* the options around the built-in transports, with and without their
\* collaborator, next to a caller's transport and a prioritised option
WrapperOptions ==
    {WithDomainFronting(f) : f \in Collaborators}
        \cup {WithDNSTunnel(d) : d \in Collaborators}
        \cup {WithAMPCache(c) : c \in Collaborators}
        \cup {WithProxyless(e) : e \in BOOLEAN}
        \cup {WithTransport(NilTransport), WithTransport(newTransport(1, 0, OrigFactory)),
              WithLogWriter}
WrapperOptionLists == UNION {[1..n -> WrapperOptions] : n \in 0..(NumTransports + 1)}

\* up to NumTransports + 1 options in any order
ShortOptionLists == UNION {[1..n -> Options] : n \in 0..(NumTransports + 1)}

\* maxInsertion transports with one prioritised option put among them: the
\* shortest lists that sort.Sort does not insertion-sort
LongOptionLists ==
    {[i \in 1..(maxInsertion + 1) |->
         IF i < p THEN WithTransport(newTransport(i, 0, OrigFactory))
         ELSE IF i = p THEN o
         ELSE WithTransport(newTransport(i - 1, 0, OrigFactory))] :
       p \in 1..(maxInsertion + 1), o \in {WithLogWriter, WithPanicListener}}

\* each option with the position the caller gave it
Tagged(opts) == [i \in DOMAIN opts |-> [opt |-> opts[i], pos |-> i]]

\* byPriority.Less and byPriority.Swap, on 0-based positions
Less(s, i, j) == s[i + 1].opt.priorityInt < s[j + 1].opt.priorityInt
Swap(s, i, j) == [s EXCEPT ![i + 1] = s[j + 1], ![j + 1] = s[i + 1]]

\* sort.Sort, as the standard library runs it on lists of up to
\* maxInsertion + 1 elements: insertion sort up to maxInsertion; above it one
\* round of pdqsort (pivot by median of three, return if already sorted,
\* partition) whose two sides are then within insertion sort's range.
RECURSIVE insertionShift(_, _, _)
insertionShift(s, a, j) ==
    IF j > a /\ Less(s, j, j - 1) THEN insertionShift(Swap(s, j, j - 1), a, j - 1) ELSE s

RECURSIVE insertionFrom(_, _, _, _)
insertionFrom(s, a, b, i) ==
    IF i < b THEN insertionFrom(insertionShift(s, a, i), a, b, i + 1) ELSE s

insertionSort(s, a, b) == insertionFrom(s, a, b, a + 1)

\* order2: the two positions in order, and whether they were exchanged
order2(s, x, y) == IF Less(s, y, x) THEN [lo |-> y, hi |-> x, swaps |-> 1]
                                    ELSE [lo |-> x, hi |-> y, swaps |-> 0]

\* median of the elements at x, y, z and the number of exchanges made
median(s, x, y, z) ==
    LET o1 == order2(s, x, y)
        o2 == order2(s, o1.hi, z)
        o3 == order2(s, o1.lo, o2.lo)
    IN  [pivot |-> o3.hi, swaps |-> o1.swaps + o2.swaps + o3.swaps]

\* choosePivot for ranges of 8 to 49 elements
choosePivot(s, a, b) ==
    LET q == (b - a) \div 4
    IN  median(s, a + q, a + 2 * q, a + 3 * q)

\* partialInsertionSort on a range of fewer than 50 elements: reports whether
\* the range is sorted already and moves nothing
partialInsertionSort(s, a, b) == \A i \in (a + 1)..(b - 1) : ~Less(s, i, i - 1)

RECURSIVE scanUp(_, _, _, _)
scanUp(s, i, j, a) == IF i <= j /\ Less(s, i, a) THEN scanUp(s, i + 1, j, a) ELSE i

RECURSIVE scanDown(_, _, _, _)
scanDown(s, i, j, a) == IF i <= j /\ ~Less(s, j, a) THEN scanDown(s, i, j - 1, a) ELSE j

RECURSIVE partitionLoop(_, _, _, _)
partitionLoop(s, i, j, a) ==
    LET i1 == scanUp(s, i, j, a)
        j1 == scanDown(s, i1, j, a)
    IN  IF i1 > j1 THEN [s |-> Swap(s, j1, a), mid |-> j1]
        ELSE partitionLoop(Swap(s, i1, j1), i1 + 1, j1 - 1, a)

\* partition: the pivot goes to the front, the rest is split around it
partition(s, a, b, pivot) == partitionLoop(Swap(s, a, pivot), a + 1, b - 1, a)

pdqsort(s, a, b) ==
    IF b - a <= maxInsertion THEN insertionSort(s, a, b)
    ELSE LET cp == choosePivot(s, a, b)
         IN  IF cp.swaps = 0 /\ partialInsertionSort(s, a, b) THEN s
             ELSE LET pt == partition(s, a, b, cp.pivot)
                  IN  insertionSort(insertionSort(pt.s, a, pt.mid), pt.mid + 1, b)

\* sort.Sort(byPriority(options))
Sort(s) == pdqsort(s, 0, Len(s))

\* opt.apply(k) on the registry
RECURSIVE applyTransports(_, _)
applyTransports(reg, s) ==
    IF s = <<>> THEN reg
    ELSE LET o == Head(s).opt
         IN  applyTransports(IF o.kind \in {"transport", "proxyless"} /\ o.transport # NilTransport
                               THEN Append(reg, o.transport) ELSE reg,
                             Tail(s))

\* opt.apply(k) on logWriter and panicListener: the position of the option
\* that set the field last
DefaultCfg == [logWriter |-> 0, panicListener |-> 0]
RECURSIVE applyCfg(_, _)
applyCfg(cfg, s) ==
    IF s = <<>> THEN cfg
    ELSE LET o == Head(s)
         IN  applyCfg(IF o.opt.kind = "logWriter" THEN [cfg EXCEPT !.logWriter = o.pos]
                      ELSE IF o.opt.kind = "panicListener"
                             THEN [cfg EXCEPT !.panicListener = o.pos]
                      ELSE cfg,
                      Tail(s))

\* ----------------------------------------------------------------- client
\* the names ReplaceTransport is called with; 0 is never registered
ReplaceNames == 0..NumTransports
\* the factories ReplaceTransport is called with
Factories == {NewFactory}

\* fmt.Errorf("Could not find matching transport: %v", name)
NotFoundErr(name) == [kind |-> "notfound", cause |-> [op |-> "replace", who |-> name]]

\* the goroutines that call ReplaceTransport
Callers == 1..2
\* the mutex when nobody holds it
Unlocked == [holder |-> 0, name |-> 0, rtg |-> NoFactory]

\* the other RoundTrips in flight, of this client or of any other
OtherRoundTrips == 2..3

\* no client yet
NoClient == [made |-> FALSE, shared |-> FALSE, own |-> <<>>]
\* Variant: the race transport keeps a copy of the registry.
CopiedList == [made |-> TRUE, shared |-> FALSE, own |-> transports]

\* newRaceTransport(k.appName, k.panicListener, k.transports...): the slice is
\* passed as it is, so the race transport's list is k.transports' array
SharedList == [made |-> TRUE, shared |-> TRUE, own |-> <<>>]
\* the list RoundTrip ranges over
ClientView == IF client.shared THEN transports ELSE client.own

\* the first entry of the registry called name (0: none)
FirstNamed(reg, name) ==
    IF \E i \in DOMAIN reg : reg[i].name = name
      THEN CHOOSE i \in DOMAIN reg :
               /\ reg[i].name = name
               /\ \A j \in DOMAIN reg : reg[j].name = name => i <= j
      ELSE 0

\* ---------------------------------------------------------------- request
\* k.appName, as a header value
AppName == [kind |-> "appName", name |-> 0]
\* a transport's Name(), as a header value
MethodName(name) == [kind |-> "transportName", name |-> name]
\* a value the caller put in a header
CallerValue == [kind |-> "caller", name |-> 0]

\* header maps: the two diagnostic keys and one other key, each with its values
NoHeader == [app |-> <<>>, method |-> <<>>, other |-> <<>>]
Headers == {NoHeader,
            [app |-> <<CallerValue>>, method |-> <<CallerValue>>, other |-> <<CallerValue>>]}

\* request bodies: nil, http.NoBody, or a reader with `data` of which `pos`
\* bytes were read
NilBody == [kind |-> "nil", data |-> <<>>, pos |-> 0]
NoBody == [kind |-> "NoBody", data |-> <<>>, pos |-> 0]
NewReader(data) == [kind |-> "reader", data |-> data, pos |-> 0]
\* a body whose Read returns an error
FailingBody == [kind |-> "failing", data |-> <<>>, pos |-> 0]
ReadFails(body) == body.kind = "failing"
\* io.ReadAll(body): the bytes not read yet
ReadAll(body) == SubSeq(body.data, body.pos + 1, Len(body.data))
\* the body once it was read to its end
Drained(body) == [body EXCEPT !.pos = Len(body.data)]
\* a body of n bytes
Bytes(n) == [i \in 1..n |-> i]

\* req.URL.Host: a name or a bracketed IPv6 literal, with or without a port
\* (port 0: none; brackets: how many pairs enclose the host)
Hosts == [kind : {"name", "ipv6"}, brackets : {0, 1}, port : {0, 8443}]
UrlHosts == {h \in Hosts : h.brackets = 1 <=> h.kind = "ipv6"}
Schemes == {"https", "http", "ws"}

\* net.SplitHostPort(addr) returns an error: there is no port
SplitHostPortFails(h) == h.port = 0
\* net.JoinHostPort(host, port): a host with a colon in it is put in brackets
JoinHostPort(h, port) ==
    [h EXCEPT !.port = port, !.brackets = IF h.kind = "ipv6" THEN @ + 1 ELSE @]
\* host:port as a dialer can split it again
IsHostPort(h) == h.port # 0 /\ (h.brackets = 1 <=> h.kind = "ipv6")
NoAddr == [kind |-> "none", brackets |-> 0, port |-> 0]

\* connectedRoundTripper: addr is the URL's host, with the scheme's port if
\* the host does not split into host and port
Addr(r) ==
    IF SplitHostPortFails(r.host)
      THEN IF r.scheme = "https" THEN JoinHostPort(r.host, 443)
                                 ELSE JoinHostPort(r.host, 80)
      ELSE r.host

\* the requests a caller may pass with a body of n bytes: the plain one, one
\* per URL form, one per header map and one per body form
Request(n) == [id |-> 0, scheme |-> "https", host |-> [kind |-> "name", brackets |-> 0, port |-> 0],
               method |-> IF n = 0 THEN "GET" ELSE "POST", contentLength |-> n,
               header |-> NoHeader,
               body |-> IF n = 0 THEN NilBody ELSE NewReader(Bytes(n))]
Requests(n) ==
    {[Request(n) EXCEPT !.scheme = sch, !.host = h] : sch \in Schemes, h \in UrlHosts}
      \cup {[Request(n) EXCEPT !.header = hd, !.contentLength = cl] :
                hd \in Headers, cl \in {0, n}}
      \cup (IF n = 0 THEN {[Request(n) EXCEPT !.body = NoBody]} ELSE {})

NoClone == [id |-> 0, scheme |-> "none", host |-> NoAddr, method |-> "none",
            contentLength |-> 0, header |-> NoHeader, body |-> NilBody]

\* Variant: the diagnostic headers replace what the caller had put there.
cloneRequestSetsHeaders(r, id, appName, transportName, bytes) ==
    [r EXCEPT !.id = id,
              !.header = [@ EXCEPT !.app = <<appName>>, !.method = <<transportName>>],
              !.body = IF r.body.kind = "reader" THEN NewReader(bytes) ELSE @]

\* Variant: a request without a body gets a reader over the empty buffer.
cloneRequestAlwaysReader(r, id, appName, transportName, bytes) ==
    [r EXCEPT !.id = id,
              !.header = [@ EXCEPT !.app = Append(@, appName),
                                   !.method = Append(@, transportName)],
              !.body = NewReader(bytes)]

\* cloneRequest(req, appName, transportName, bodyBytes): a new request (id)
\* with the URL and method of req, its own header map with the two values
\* added, and its own reader over the buffered bytes; a nil or NoBody body
\* stays what it is.
cloneRequest(r, id, appName, transportName, bytes) ==
    [r EXCEPT !.id = id,
              !.header = [@ EXCEPT !.app = Append(@, appName),
                                   !.method = Append(@, transportName)],
              !.body = IF r.body.kind = "reader" THEN NewReader(bytes) ELSE @]

\* the request rt.RoundTrip is called with: the clone, or, when reading the
\* body fails while cloning, the request itself
clonedRequest(r, id, appName, transportName, bytes) ==
    IF ReadFails(r.body) THEN r ELSE cloneRequest(r, id, appName, transportName, bytes)

\* Variant: the body is read into the buffer and left at its end.
bufferedBodyLeftDrained(body) ==
    IF body.kind = "reader" THEN Drained(body) ELSE body

\* RoundTrip buffers the body once: the request gets a reader over the buffer
bufferedBody(body) ==
    IF body.kind = "reader" THEN NewReader(ReadAll(body)) ELSE body

\* context.WithTimeout(req.Context(), 1*time.Minute), in seconds
Timeout(r) == timeoutSeconds

\* ----------------------------------------------------------------- errors
\* fmt.Errorf("failed to connect to any dialer with last error: %v", err)
AllFailedErr(cause) == [kind |-> "allfailed", cause |-> cause]
\* fmt.Errorf("panic in dialer: %v", r)
PanicMsg(t) == [kind |-> "panic", cause |-> [op |-> "panic", who |-> t]]
\* errors.New("failed to get response")
GenericErr == [kind |-> "generic", cause |-> NoCause]
ConnectCause(t) == [op |-> "connect", who |-> t]
SendCause(t) == [op |-> "send", who |-> t]
CtxCause(e) == [op |-> e, who |-> 0]
\* ctx.Err() returned as it is
CtxError(e) == [kind |-> e, cause |-> CtxCause(e)]

\* ---------------------------------------------------------------- context
\* Variant: RoundTrip returns without the deferred cancel().
CtxErrNowNoDefer == ctxErr

\* ctx.Err() of the derived context: the caller's cancellation, the timeout,
\* or the deferred cancel() once RoundTrip has returned.
CtxErrNow == IF ctxErr # "none" THEN ctxErr
             ELSE IF pc = "done" THEN "canceled" ELSE "none"

\* the state at the call of RoundTrip(req), whatever the registry and the request
Start ==
    /\ pc = "start"
    /\ iter = 0
    /\ cur = 0
    /\ wpc = [t \in Transports |-> "idle"]
    /\ httpErrors = 0
    /\ rtChan = <<>>
    /\ errCh = <<>>
    /\ ctxErr = "none"
    /\ result = NoResult
    /\ sent = <<>>
    /\ responses = <<>>
    /\ inflight = {}
    /\ accounted = <<>>
    /\ listened = <<>>
    /\ wfac = [t \in Transports |-> NoFactory]
    /\ bodyBytes = <<>>
    /\ cloned = NoClone
    /\ waddr = [t \in Transports |-> NoAddr]
    /\ deadline = 0
    /\ mu = Unlocked
    /\ cloneMu = FALSE
    /\ cloning = {}

\* the kindling value NewKindling returns for WithTransport options that
\* register `transports`, and the client NewHTTPClient returns for it
Constructed ==
    /\ options = [i \in DOMAIN transports |-> WithTransport(transports[i])]
    /\ built = TRUE
    /\ applied = Tagged(options)
    /\ kcfg = DefaultCfg
    /\ client = SharedList
    /\ replaceErr = NoResult.err
    /\ installed = [n \in ReplaceNames |-> NoFactory]

Init ==
    /\ transports \in {reg \in Registries(NumTransports) :
                          \A i \in DOMAIN reg : reg[i].name = i}
    /\ bodyLen \in BodyLens
    /\ req = Request(bodyLen)
    /\ sendOutcome \in [Transports -> SendOutcomes]
    /\ Constructed
    /\ Start


\* Variant: every failure is reported on errCh, not only the one that makes
\* the count reach the number of generators.
errFuncReportsEach(cause) ==
    /\ httpErrors' = httpErrors + 1
    /\ accounted' = Append(accounted, cause)
    /\ Len(errCh) < Capacity
    /\ errCh' = Append(errCh, AllFailedErr(cause))

\* errFunc: count the failure; the failure that makes the count reach the
\* number of generators reports the terminal error on errCh.
errFunc(cause) ==
    /\ httpErrors' = httpErrors + 1
    /\ accounted' = Append(accounted, cause)
    /\ IF httpErrors + 1 = NumGenerators
         THEN /\ Len(errCh) < Capacity
              /\ errCh' = Append(errCh, AllFailedErr(cause))
         ELSE errCh' = errCh

\* return resp, err (the deferred cancel() is CtxErrNow's "done" case)
Return(resp, err) ==
    /\ pc' = "done"
    /\ result' = [resp |-> resp, err |-> err]

\* Fan-out: one goroutine per generator.
FanOut ==
    /\ client.made
    /\ pc = "start"
    /\ pc' = "select"
    /\ wpc' = [t \in Transports |->
                  IF t \in roundTripperGenerators THEN "connecting" ELSE "skipped"]
    /\ wfac' = [t \in Transports |->
                  IF t \in roundTripperGenerators THEN ClientView[t].rtg ELSE NoFactory]
    /\ deadline' = Timeout(req)
    /\ bodyBytes' = ReadAll(req.body)
    /\ req' = [req EXCEPT !.body = bufferedBody(@)]
    /\ waddr' = [t \in Transports |->
                   IF t \in roundTripperGenerators THEN Addr(req) ELSE NoAddr]
    /\ UNCHANGED <<env, cloned, iter, cur, httpErrors, accounted, rtChan, errCh, ctxErr, result, sent,
                   responses, inflight, listened>>

\* d.roundTripper(ctx, addr) returns an error.
ConnectFails(t) ==
    /\ wpc[t] = "connecting"
    /\ errFunc(ConnectCause(t))
    /\ wpc' = [wpc EXCEPT ![t] = "failed"]
    /\ UNCHANGED <<env, wfac, reqv, cloned, pc, iter, cur, rtChan, ctxErr, result, sent, responses,
                   inflight, listened>>

\* d.roundTripper(ctx, addr) returns a connected round tripper.
ConnectSucceeds(t) ==
    /\ wpc[t] = "connecting"
    /\ wpc' = [wpc EXCEPT ![t] = "connected"]
    /\ UNCHANGED <<env, wfac, reqv, cloned, pc, iter, cur, httpErrors, accounted, rtChan, errCh, ctxErr, result, sent,
                   responses, inflight, listened>>

\* Variant: the worker sends the request on its own connection instead of
\* handing the connection to the caller's goroutine.
PublishSendsItself(t) ==
    /\ wpc[t] = "connected"
    /\ IF CtxErrNow # "none"
         THEN /\ errFunc(CtxCause(CtxErrNow))
              /\ wpc' = [wpc EXCEPT ![t] = "late"]
              /\ UNCHANGED <<inflight, sent>>
         ELSE /\ inflight' = inflight \cup {t}
              /\ sent' = Append(sent, t)
              /\ wpc' = [wpc EXCEPT ![t] = "published"]
              /\ UNCHANGED <<httpErrors, accounted, errCh>>
    /\ UNCHANGED <<env, wfac, reqv, cloned, pc, iter, cur, rtChan, ctxErr, result, responses, listened>>

\* Variant: a worker that finds the context cancelled returns without
\* accounting a failure.
PublishDropsLate(t) ==
    /\ wpc[t] = "connected"
    /\ IF CtxErrNow # "none"
         THEN /\ wpc' = [wpc EXCEPT ![t] = "late"]
              /\ UNCHANGED <<rtChan, httpErrors, accounted, errCh>>
         ELSE /\ Len(rtChan) < Capacity
              /\ rtChan' = Append(rtChan, t)
              /\ wpc' = [wpc EXCEPT ![t] = "published"]
              /\ UNCHANGED <<httpErrors, accounted, errCh>>
    /\ UNCHANGED <<env, wfac, reqv, cloned, pc, iter, cur, ctxErr, result, sent, responses, inflight, listened>>

\* Variant: the worker publishes the connection without looking at the
\* context again.
PublishUnchecked(t) ==
    /\ wpc[t] = "connected"
    /\ Len(rtChan) < Capacity
    /\ rtChan' = Append(rtChan, t)
    /\ wpc' = [wpc EXCEPT ![t] = "published"]
    /\ UNCHANGED <<env, wfac, reqv, cloned, pc, iter, cur, httpErrors, accounted, errCh, ctxErr, result, sent,
                   responses, inflight, listened>>

\* The worker re-checks the context, then publishes the connection.
Publish(t) ==
    /\ wpc[t] = "connected"
    /\ IF CtxErrNow # "none"
         THEN /\ errFunc(CtxCause(CtxErrNow))
              /\ wpc' = [wpc EXCEPT ![t] = "late"]
              /\ UNCHANGED rtChan
         ELSE /\ Len(rtChan) < Capacity
              /\ rtChan' = Append(rtChan, t)
              /\ wpc' = [wpc EXCEPT ![t] = "published"]
              /\ UNCHANGED <<httpErrors, accounted, errCh>>
    /\ UNCHANGED <<env, wfac, reqv, cloned, pc, iter, cur, ctxErr, result, sent, responses, inflight, listened>>

\* Variant: the recover puts the error on errCh without telling the listener.
WorkerPanicsSilently(t) ==
    /\ wpc[t] = "connecting"
    /\ Len(errCh) < Capacity
    /\ errCh' = Append(errCh, PanicMsg(t))
    /\ wpc' = [wpc EXCEPT ![t] = "panicked"]
    /\ UNCHANGED <<env, wfac, reqv, cloned, pc, iter, cur, httpErrors, accounted, rtChan, ctxErr, result, sent,
                   responses, inflight, listened>>

\* The dialer panics; the deferred recover reports it.
WorkerPanics(t) ==
    /\ wpc[t] = "connecting"
    /\ Len(errCh) < Capacity
    /\ listened' = Append(listened, PanicMsg(t))
    /\ errCh' = Append(errCh, PanicMsg(t))
    /\ wpc' = [wpc EXCEPT ![t] = "panicked"]
    /\ UNCHANGED <<env, wfac, reqv, cloned, pc, iter, cur, httpErrors, accounted, rtChan, ctxErr, result, sent,
                   responses, inflight>>

\* Variant: the clone is tagged with the name of the first transport of the
\* registry, whichever transport produced the connection.
RecvReadyTagsFirst ==
    /\ pc = "select"
    /\ rtChan # <<>>
    /\ ~cloneMu
    /\ cur' = Head(rtChan)
    /\ rtChan' = Tail(rtChan)
    /\ sent' = Append(sent, Head(rtChan))
    /\ inflight' = inflight \cup {Head(rtChan)}
    /\ pc' = "sending"
    /\ cloned' = clonedRequest(req, Len(sent) + 1, AppName,
                               MethodName(transports[1].name), bodyBytes)
    /\ UNCHANGED <<env, wfac, reqv, iter, wpc, httpErrors, accounted, errCh, ctxErr, result, responses,
                   listened>>

\* select case rt := <-rtChan, up to the call of rt.RoundTrip(cloneRequest(req))
RecvReady ==
    /\ pc = "select"
    /\ rtChan # <<>>
    /\ ~cloneMu
    /\ cur' = Head(rtChan)
    /\ rtChan' = Tail(rtChan)
    /\ sent' = Append(sent, Head(rtChan))
    /\ inflight' = inflight \cup {Head(rtChan)}
    /\ pc' = "sending"
    /\ cloned' = clonedRequest(req, Len(sent) + 1, AppName,
                               MethodName(transports[Head(rtChan)].name), bodyBytes)
    /\ UNCHANGED <<env, wfac, reqv, iter, wpc, httpErrors, accounted, errCh, ctxErr, result, responses,
                   listened>>

\* Variant: a transport whose send failed loses its factory in the registry.
SendFailsDisablesTransport ==
    /\ pc = "sending"
    /\ ~sendOutcome[cur].ok \/ CtxErrNow # "none"
    /\ errFunc(SendCause(cur))
    /\ inflight' = inflight \ {cur}
    /\ iter' = iter + 1
    /\ cur' = 0
    /\ IF iter + 1 = retryTimes
         THEN Return(NoResp, GenericErr)
         ELSE pc' = "select" /\ UNCHANGED result
    /\ cloned' = [cloned EXCEPT !.body = Drained(@)]
    /\ transports' = [transports EXCEPT ![cur].rtg = NoFactory]
    /\ UNCHANGED <<bodyLen, sendOutcome, api, locks, wfac, reqv, wpc, rtChan, ctxErr, sent, responses,
                   listened>>

\* rt.RoundTrip returns an error: errFunc(err); continue
SendFails ==
    /\ pc = "sending"
    /\ ~sendOutcome[cur].ok \/ CtxErrNow # "none"
    /\ errFunc(SendCause(cur))
    /\ inflight' = inflight \ {cur}
    /\ iter' = iter + 1
    /\ cur' = 0
    /\ IF iter + 1 = retryTimes
         THEN Return(NoResp, GenericErr)
         ELSE pc' = "select" /\ UNCHANGED result
    /\ cloned' = [cloned EXCEPT !.body = Drained(@)]
    /\ UNCHANGED <<env, wfac, reqv, wpc, rtChan, ctxErr, sent, responses, listened>>

\* Variant: the response is not returned; the loop goes on.
OnResponseNoReturn(t, st) ==
    /\ responses' = Append(responses, [from |-> t, status |-> st])
    /\ iter' = iter + 1
    /\ IF iter + 1 = retryTimes
         THEN Return(NoResp, GenericErr)
         ELSE pc' = "select" /\ UNCHANGED result
    /\ UNCHANGED <<httpErrors, accounted, errCh>>

\* Variant: a response with status >= 400 is counted as a failure and the
\* loop goes on to the next connection.
OnResponseKeepGoing(t, st) ==
    /\ responses' = Append(responses, [from |-> t, status |-> st])
    /\ IF st >= 400
         THEN /\ errFunc(SendCause(t))
              /\ iter' = iter + 1
              /\ IF iter + 1 = retryTimes
                   THEN Return([from |-> t, status |-> st], NilErr)
                   ELSE pc' = "select" /\ UNCHANGED result
         ELSE /\ Return([from |-> t, status |-> st], NilErr)
              /\ UNCHANGED <<iter, httpErrors, accounted, errCh>>

\* rt.RoundTrip returns a response: return resp, nil
OnResponse(t, st) ==
    /\ responses' = Append(responses, [from |-> t, status |-> st])
    /\ Return([from |-> t, status |-> st], NilErr)
    /\ UNCHANGED <<iter, httpErrors, accounted, errCh>>

SendResponds ==
    /\ pc = "sending"
    /\ sendOutcome[cur].ok
    /\ OnResponse(cur, sendOutcome[cur].status)
    /\ inflight' = inflight \ {cur}
    /\ cur' = 0
    /\ cloned' = [cloned EXCEPT !.body = Drained(@)]
    /\ UNCHANGED <<env, wfac, reqv, wpc, rtChan, ctxErr, sent, listened>>

\* select case err := <-errCh
RecvErr ==
    /\ pc = "select"
    /\ errCh # <<>>
    /\ errCh' = Tail(errCh)
    /\ Return(NoResp, Head(errCh))
    /\ UNCHANGED <<env, wfac, reqv, cloned, iter, cur, wpc, httpErrors, accounted, rtChan, ctxErr, sent, responses,
                   inflight, listened>>

\* Variant: the select has no case for ctx.Done().
CtxDoneNever ==
    /\ FALSE
    /\ UNCHANGED vars

\* select case <-ctx.Done()
CtxDone ==
    /\ pc = "select"
    /\ CtxErrNow # "none"
    /\ Return(NoResp, CtxError(CtxErrNow))
    /\ UNCHANGED <<env, wfac, reqv, cloned, iter, cur, wpc, httpErrors, accounted, rtChan, errCh, ctxErr, sent,
                   responses, inflight, listened>>

\* The caller cancels req.Context().
CallerCancels ==
    /\ pc # "done"
    /\ ctxErr = "none"
    /\ ctxErr' = "canceled"
    /\ UNCHANGED <<env, wfac, reqv, cloned, pc, iter, cur, wpc, httpErrors, accounted, rtChan, errCh, result, sent,
                   responses, inflight, listened>>

\* The context.WithTimeout timer fires.
DeadlineFires ==
    /\ pc \in {"select", "sending"}
    /\ ctxErr = "none"
    /\ ctxErr' = "deadline"
    /\ UNCHANGED <<env, wfac, reqv, cloned, pc, iter, cur, wpc, httpErrors, accounted, rtChan, errCh, result, sent,
                   responses, inflight, listened>>

\* --------------------------------------------------------------- registry
\* NewKindling(name, options...): sort the options by priority, apply each.
NewKindling ==
    /\ ~built
    /\ built' = TRUE
    /\ LET sorted == Sort(Tagged(options))
       IN  /\ applied' = sorted
           /\ transports' = applyTransports(<<>>, sorted)
           /\ kcfg' = applyCfg(DefaultCfg, sorted)
    /\ UNCHANGED <<options, client, replaceErr, installed, bodyLen, sendOutcome, race>>

\* NewHTTPClient: an http.Client around k.newRaceTransport()
NewHTTPClient ==
    /\ built
    /\ ~client.made
    /\ client' = SharedList
    /\ UNCHANGED <<transports, options, built, applied, kcfg, replaceErr, installed,
                   bodyLen, sendOutcome, race>>

\* Variant: every entry called name gets the new factory.
ReplaceTransportEvery(name, rt) ==
    /\ built
    /\ IF FirstNamed(transports, name) # 0
         THEN /\ transports' = [i \in DOMAIN transports |->
                                   IF transports[i].name = name
                                     THEN newTransport(name, transports[i].maxLength, rt)
                                     ELSE transports[i]]
              /\ replaceErr' = NilErr
              /\ installed' = [installed EXCEPT ![name] = rt]
         ELSE /\ replaceErr' = NotFoundErr(name)
              /\ UNCHANGED <<transports, installed>>
    /\ UNCHANGED <<options, built, applied, kcfg, client, bodyLen, sendOutcome, race>>

\* Variant: a name that is not registered is added to the registry.
ReplaceTransportAdds(name, rt) ==
    /\ built
    /\ LET i == FirstNamed(transports, name)
       IN  IF i # 0
             THEN /\ transports' = [transports EXCEPT
                                       ![i] = newTransport(name, transports[i].maxLength, rt)]
                  /\ replaceErr' = NilErr
                  /\ installed' = [installed EXCEPT ![name] = rt]
             ELSE /\ transports' = Append(transports, newTransport(name, 0, rt))
                  /\ replaceErr' = NilErr
                  /\ installed' = [installed EXCEPT ![name] = rt]
    /\ UNCHANGED <<options, built, applied, kcfg, client, bodyLen, sendOutcome, race>>

\* Variant: the workers already spawned are switched to the new factory too.
ReplaceTransportReachesWorkers(name, rt) ==
    /\ built
    /\ LET i == FirstNamed(transports, name)
       IN  IF i # 0
             THEN /\ transports' = [transports EXCEPT
                                       ![i] = newTransport(name, transports[i].maxLength, rt)]
                  /\ replaceErr' = NilErr
                  /\ installed' = [installed EXCEPT ![name] = rt]
                  /\ wfac' = IF i \in DOMAIN wfac /\ wfac[i] # NoFactory
                               THEN [wfac EXCEPT ![i] = rt] ELSE wfac
             ELSE /\ replaceErr' = NotFoundErr(name)
                  /\ UNCHANGED <<transports, installed, wfac>>
    /\ UNCHANGED <<options, built, applied, kcfg, client, bodyLen, sendOutcome, pc, iter, cur,
                   wpc, httpErrors, rtChan, errCh, ctxErr, result, sent, responses, inflight,
                   accounted, listened, reqv, cloned, locks>>

\* ReplaceTransport(name, rt): the first entry called name keeps its name and
\* maxLength and gets the factory rt; without such an entry, an error.
ReplaceTransport(name, rt) ==
    /\ built
    /\ LET i == FirstNamed(transports, name)
       IN  IF i # 0
             THEN /\ transports' = [transports EXCEPT
                                       ![i] = newTransport(name, transports[i].maxLength, rt)]
                  /\ replaceErr' = NilErr
                  /\ installed' = [installed EXCEPT ![name] = rt]
             ELSE /\ replaceErr' = NotFoundErr(name)
                  /\ UNCHANGED <<transports, installed>>
    /\ UNCHANGED <<options, built, applied, kcfg, client, bodyLen, sendOutcome, race>>

\* the registry after the loop of ReplaceTransport(name, rt) has run on it
replaced(reg, name, rt) ==
    LET i == FirstNamed(reg, name)
    IN  IF i # 0 THEN [reg EXCEPT ![i] = newTransport(name, reg[i].maxLength, rt)] ELSE reg

\* ReplaceTransport(name, rt) called by goroutine c, up to the point where
\* it holds the mutex
Lock(c, name, rt) ==
    /\ built
    /\ mu.holder = 0
    /\ mu' = [holder |-> c, name |-> name, rtg |-> rt]
    /\ UNCHANGED <<transports, bodyLen, sendOutcome, api, cloneMu, cloning,
                   pc, iter, cur, wpc, httpErrors, rtChan, errCh, ctxErr, result, sent, responses,
                   inflight, accounted, listened, wfac, reqv, cloned>>

\* the rest of that call: the loop over k.transports, the write of the entry,
\* the return and the deferred Unlock
ReplaceLocked ==
    /\ mu.holder # 0
    /\ transports' = replaced(transports, mu.name, mu.rtg)
    /\ IF FirstNamed(transports, mu.name) # 0
         THEN /\ replaceErr' = NilErr
              /\ installed' = [installed EXCEPT ![mu.name] = mu.rtg]
         ELSE /\ replaceErr' = NotFoundErr(mu.name)
              /\ UNCHANGED installed
    /\ mu' = Unlocked
    /\ UNCHANGED <<options, built, applied, kcfg, client, bodyLen, sendOutcome, cloneMu, cloning,
                   pc, iter, cur, wpc, httpErrors, rtChan, errCh, ctxErr, result, sent, responses,
                   inflight, accounted, listened, wfac, reqv, cloned>>

\* Variant: the clone starts without taking the mutex.
CloneBeginUnlocked(r) ==
    /\ r \notin cloning
    /\ cloneMu' = TRUE
    /\ cloning' = cloning \cup {r}
    /\ UNCHANGED <<transports, bodyLen, sendOutcome, api, mu,
                   pc, iter, cur, wpc, httpErrors, rtChan, errCh, ctxErr, result, sent, responses,
                   inflight, accounted, listened, wfac, reqv, cloned>>

\* Another RoundTrip takes the cloning mutex and starts to clone its request.
CloneBegin(r) ==
    /\ r \notin cloning
    /\ ~cloneMu
    /\ cloneMu' = TRUE
    /\ cloning' = cloning \cup {r}
    /\ UNCHANGED <<transports, bodyLen, sendOutcome, api, mu,
                   pc, iter, cur, wpc, httpErrors, rtChan, errCh, ctxErr, result, sent, responses,
                   inflight, accounted, listened, wfac, reqv, cloned>>

\* Its clone is finished and the mutex released.
CloneEnd(r) ==
    /\ r \in cloning
    /\ cloning' = cloning \ {r}
    /\ cloneMu' = FALSE
    /\ UNCHANGED <<transports, bodyLen, sendOutcome, api, mu,
                   pc, iter, cur, wpc, httpErrors, rtChan, errCh, ctxErr, result, sent, responses,
                   inflight, accounted, listened, wfac, reqv, cloned>>

Next ==
    \/ FanOut
    \/ \E t \in Transports : ConnectFails(t)
    \/ \E t \in Transports : ConnectSucceeds(t)
    \/ \E t \in Transports : Publish(t)
    \/ \E t \in Transports : WorkerPanics(t)
    \/ RecvReady
    \/ SendFails
    \/ SendResponds
    \/ RecvErr
    \/ CtxDone
    \/ CallerCancels
    \/ DeadlineFires

Spec == Init /\ [][Next]_vars

\* The life of a kindling value: construction from any option list, then
\* clients, replacements and the start of a RoundTrip in any order.
InitRegistry ==
    /\ options \in ShortOptionLists \cup LongOptionLists
    /\ built = FALSE
    /\ transports = <<>>
    /\ applied = <<>>
    /\ kcfg = DefaultCfg
    /\ client = NoClient
    /\ replaceErr = NoResult.err
    /\ installed = [n \in ReplaceNames |-> NoFactory]
    /\ bodyLen = 0
    /\ req = Request(bodyLen)
    /\ sendOutcome = <<>>
    /\ Start

NextRegistry ==
    \/ NewKindling
    \/ NewHTTPClient
    \/ \E name \in ReplaceNames, rt \in Factories : ReplaceTransport(name, rt)
    \/ FanOut

SpecRegistry == InitRegistry /\ [][NextRegistry]_vars

\* A RoundTrip on unbounded transports, each failing to send or answering
\* with a success, with ReplaceTransport called at any moment of it.
InitReplace ==
    /\ transports = [i \in 1..NumTransports |-> newTransport(i, 0, OrigFactory)]
    /\ bodyLen = 0
    /\ req = Request(bodyLen)
    /\ sendOutcome \in [Transports -> {o \in SendOutcomes : o.ok => o.status < 400}]
    /\ Constructed
    /\ Start

NextReplace ==
    \/ Next
    \/ \E name \in ReplaceNames, rt \in Factories : ReplaceTransport(name, rt)

SpecReplace == InitReplace /\ [][NextReplace]_vars

\* A RoundTrip of any request a caller may pass: every URL form, header map
\* and body form, on unbounded transports that fail to send or succeed.
InitRequest ==
    /\ transports = [i \in 1..NumTransports |-> newTransport(i, 0, OrigFactory)]
    /\ bodyLen \in BodyLens
    /\ req \in Requests(bodyLen)
    /\ sendOutcome \in [Transports -> {o \in SendOutcomes : o.ok => o.status < 400}]
    /\ Constructed
    /\ Start

SpecRequest == InitRequest /\ [][Next]_vars

\* The construction of a kindling value from options around the built-in
\* transports, a client, and the start of a RoundTrip.
InitWrappers ==
    /\ options \in WrapperOptionLists
    /\ built = FALSE
    /\ transports = <<>>
    /\ applied = <<>>
    /\ kcfg = DefaultCfg
    /\ client = NoClient
    /\ replaceErr = NoResult.err
    /\ installed = [n \in ReplaceNames |-> NoFactory]
    /\ bodyLen = 0
    /\ req = Request(bodyLen)
    /\ sendOutcome = <<>>
    /\ Start

NextWrappers ==
    \/ NewKindling
    \/ NewHTTPClient
    \/ FanOut

SpecWrappers == InitWrappers /\ [][NextWrappers]_vars

\* A RoundTrip on one transport more than the loop has iterations, all
\* unbounded, each failing to send or answering with a success.
InitWide ==
    /\ transports = [i \in 1..(retryTimes + 1) |-> newTransport(i, 0, OrigFactory)]
    /\ bodyLen = 0
    /\ req = Request(bodyLen)
    /\ sendOutcome \in [Transports -> {o \in SendOutcomes : o.ok => o.status < 400}]
    /\ Constructed
    /\ Start

SpecWide == InitWide /\ [][Next]_vars

\* A RoundTrip of a request whose body cannot be read, on unbounded
\* transports that fail to send or succeed.
InitReadError ==
    /\ transports = [i \in 1..NumTransports |-> newTransport(i, 0, OrigFactory)]
    /\ bodyLen = 0
    /\ req \in {[r EXCEPT !.body = FailingBody, !.method = "POST"] : r \in Requests(bodyLen)}
    /\ sendOutcome \in [Transports -> {o \in SendOutcomes : o.ok => o.status < 400}]
    /\ Constructed
    /\ Start

SpecReadError == InitReadError /\ [][Next]_vars

\* A RoundTrip on unbounded transports while two goroutines call
\* ReplaceTransport, each call in two steps: taking the mutex, and the rest.
NextMutex ==
    \/ Next
    \/ \E c \in Callers, name \in ReplaceNames, rt \in Factories : Lock(c, name, rt)
    \/ ReplaceLocked

SpecMutex == InitReplace /\ [][NextMutex]_vars

\* A RoundTrip on unbounded transports while other RoundTrips clone their
\* requests.
NextClones ==
    \/ Next
    \/ \E r \in OtherRoundTrips : CloneBegin(r)
    \/ \E r \in OtherRoundTrips : CloneEnd(r)

SpecClones == InitReplace /\ [][NextClones]_vars

\* A RoundTrip whose goroutine is scheduled: the call starts, a select with a
\* ready case takes one, a send returns, and the timer of the derived context
\* fires if the context is not cancelled before.
Fairness ==
    /\ WF_vars(FanOut)
    /\ WF_vars(RecvReady \/ RecvErr \/ CtxDone)
    /\ WF_vars(SendFails \/ SendResponds)
    /\ WF_vars(DeadlineFires)

\* A RoundTrip on transports that all accept the body or all refuse it.
InitLive ==
    /\ transports \in {[i \in 1..NumTransports |-> newTransport(i, m, OrigFactory)] :
                          m \in {0, MaxLen}}
    /\ bodyLen \in {0, MaxLen + 1}
    /\ req = Request(bodyLen)
    /\ sendOutcome \in [Transports -> {o \in SendOutcomes : o.ok => o.status < 400}]
    /\ Constructed
    /\ Start

SpecLive == InitLive /\ [][Next]_vars /\ Fairness

\* ------------------------------------------------------------ properties
Last(q) == q[Len(q)]
Range(q) == {q[i] : i \in DOMAIN q}
Connecting == {t \in Transports : wpc[t] = "connecting"}
Panicked == {t \in Transports : wpc[t] = "panicked"}

\* C1: within one RoundTrip at most one sub-transport rt.RoundTrip call is in
\* progress at any time, while connects of other workers may still be running.
C1_SerialSend == Cardinality(inflight) <= 1

\* a send is in progress while another worker is still connecting
C1_Witness == Cardinality(inflight) = 1 /\ Connecting # {}

\* C2: once a sub-transport has returned a response with status < 400,
\* RoundTrip has returned exactly that response with a nil error, it is the
\* last response received and the last connection the request was sent on,
\* and no send is in progress.
C2_SuccessReturnsAtOnce ==
    \A i \in DOMAIN responses :
        responses[i].status < 400 =>
            /\ pc = "done"
            /\ result = [resp |-> responses[i], err |-> NilErr]
            /\ i = Len(responses)
            /\ sent # <<>> /\ Last(sent) = responses[i].from
            /\ inflight = {}

\* RoundTrip returned a 200 after a single send while another worker had a
\* connection (published, or connected after the return); it is never used
C2_Witness ==
    /\ pc = "done" /\ result.err = NilErr /\ result.resp.status = 200
    /\ \E t \in Transports : t # result.resp.from /\ wpc[t] \in {"published", "late"}
    /\ Len(sent) = 1

\* C3: when RoundTrip returns successfully (nil error), exactly one
\* sub-transport returned a non-error response during that RoundTrip and it
\* is the response handed to the caller.
C3_ExactlyOneResponse ==
    (pc = "done" /\ result.err = NilErr) =>
        /\ Len(responses) = 1
        /\ result.resp = responses[1]
        /\ result.resp.from \in Range(sent)

\* a successful return after an earlier connection failed to send
C3_Witness ==
    /\ pc = "done" /\ result.err = NilErr
    /\ Len(sent) = 2 /\ result.resp.from = sent[2]

\* C4 (as claimed): if a fanned-out transport has connected and its
\* rt.RoundTrip answers with a status < 400, no worker panicked and the
\* context was neither cancelled nor timed out, RoundTrip returns a response
\* with status < 400 and a nil error.
C4_Claim ==
    ( /\ pc = "done"
      /\ ctxErr = "none"
      /\ Panicked = {}
      /\ \E t \in Transports :
            /\ wpc[t] = "published"
            /\ sendOutcome[t].ok /\ sendOutcome[t].status < 400 )
    => (result.err = NilErr /\ result.resp # NoResp /\ result.resp.status < 400)

\* C5 (as claimed): a response with status >= 400 is counted as one failure
\* and, while fanned-out connections remain to be tried, the engine goes on
\* to the next one instead of returning.
C5_Claim ==
    [][ (Len(responses') = Len(responses) + 1 /\ Last(responses').status >= 400)
        => /\ httpErrors' = httpErrors + 1
           /\ (iter + 1 < NumGenerators => pc' = "select") ]_vars

C7_RetryableExhaustion ==
    ( /\ pc = "done"
      /\ responses # <<>>
      /\ \A i \in DOMAIN responses : responses[i].status >= 400 )
    => result = [resp |-> Last(responses), err |-> NilErr]

\* a status >= 400 response was returned to the caller after another
\* transport had failed to connect or to send
C7_Witness ==
    /\ pc = "done" /\ result.err = NilErr /\ result.resp.status >= 400
    /\ result.resp = Last(responses)
    /\ accounted # <<>> /\ accounted[1].op \in {"connect", "send"}

\* C8 (as claimed): if the connect phase of every fanned-out worker returned
\* an error, RoundTrip returns no response and the all-attempts-failed error
\* carrying the cause that was accounted last.
C8_Claim ==
    ( /\ pc = "done"
      /\ NumGenerators >= 1
      /\ \A t \in roundTripperGenerators : wpc[t] = "failed" )
    => result = [resp |-> NoResp, err |-> AllFailedErr(Last(accounted))]

\* C8 (amended): the same, provided the request context was not cancelled
\* and its deadline had not fired before RoundTrip returned.
C8_AllConnectsFail ==
    ( /\ pc = "done"
      /\ ctxErr = "none"
      /\ NumGenerators >= 1
      /\ \A t \in roundTripperGenerators : wpc[t] = "failed" )
    => /\ result = [resp |-> NoResp, err |-> AllFailedErr(Last(accounted))]
       /\ Last(accounted).op = "connect"

\* two workers failed to connect and RoundTrip returned the terminal error
\* naming the second failure
C8_Witness ==
    /\ pc = "done" /\ ctxErr = "none"
    /\ NumGenerators >= 2
    /\ \A t \in roundTripperGenerators : wpc[t] = "failed"
    /\ result.err = AllFailedErr(accounted[NumGenerators])

\* C9 (as claimed): if the request context is cancelled or times out and no
\* sub-transport has returned a response, RoundTrip returns the context's
\* error itself, however the workers observe the cancellation (here: no
\* worker panicked and the only failures accounted are workers finding the
\* context cancelled).
C9_Claim ==
    ( /\ pc = "done" /\ ctxErr # "none" /\ responses = <<>> /\ Panicked = {}
      /\ \A i \in DOMAIN accounted : accounted[i].op = ctxErr )
    => result = [resp |-> NoResp, err |-> CtxError(ctxErr)]

Skipped == {t \in Transports : wpc[t] = "skipped"}
Count(q, x) == Cardinality({i \in DOMAIN q : q[i] = x})

C12_PanicContained ==
    \A t \in Transports :
        LET told == Count(listened, PanicMsg(t))
            put  == Count(errCh, PanicMsg(t)) + (IF result.err = PanicMsg(t) THEN 1 ELSE 0)
        IN  IF wpc[t] = "panicked" THEN told = 1 /\ put = 1
                                   ELSE told = 0 /\ put = 0

\* two workers panicked; RoundTrip returned the first panic's error and the
\* second one is still on errCh
C12_Witness ==
    /\ Cardinality(Panicked) = 2 /\ Len(listened) = 2
    /\ pc = "done" /\ result.err = listened[1]
    /\ errCh = <<listened[2]>>

\* C13 (as claimed): if a worker panicked while every other fanned-out
\* transport connected and answers with a status < 400, and the context was
\* not cancelled, RoundTrip returns such a response and not the panic error.
C13_Claim ==
    ( /\ pc = "done"
      /\ ctxErr = "none"
      /\ Panicked # {} /\ Panicked # roundTripperGenerators
      /\ \A t \in roundTripperGenerators \ Panicked :
            /\ wpc[t] = "published"
            /\ sendOutcome[t].ok /\ sendOutcome[t].status < 400 )
    => (result.err = NilErr /\ result.resp.status < 400 /\ result.resp # NoResp)

\* C14: a ReplaceTransport(name, rt) call on a registry that has an entry
\* called name returns nil and changes only the first such entry: the length,
\* the positions and every other entry stay as they were, the entry keeps
\* its name and maxLength, and its factory becomes rt.
C14_ReplaceFirstOnly ==
    [][ \A name \in ReplaceNames, rt \in Factories :
          (ReplaceTransport(name, rt) /\ FirstNamed(transports, name) # 0) =>
              LET i == FirstNamed(transports, name)
              IN  /\ replaceErr' = NilErr
                  /\ Len(transports') = Len(transports)
                  /\ \A j \in DOMAIN transports :
                        IF j = i
                          THEN /\ transports'[j].name = transports[j].name
                               /\ transports'[j].maxLength = transports[j].maxLength
                               /\ transports'[j].rtg = rt
                          ELSE transports'[j] = transports[j] ]_vars

\* two entries share a name; the replacement succeeded, the first one has
\* the new factory and its maxLength, the second one is as it was registered
C14_Witness ==
    /\ replaceErr = NilErr
    /\ \E i, j \in DOMAIN transports :
          /\ i < j /\ transports[i].name = transports[j].name
          /\ transports[i].rtg = NewFactory /\ transports[i].maxLength = MaxLen
          /\ transports[j].rtg = OrigFactory

\* C15: a ReplaceTransport(name, rt) call on a registry (possibly empty) with
\* no entry called name returns "Could not find matching transport: <name>"
\* and leaves the registry as it was; a call that finds the name returns nil,
\* so this is the only error.
C15_NotFound ==
    [][ \A name \in ReplaceNames, rt \in Factories :
          ReplaceTransport(name, rt) =>
              IF \E i \in DOMAIN transports : transports[i].name = name
                THEN replaceErr' = NilErr
                ELSE replaceErr' = NotFoundErr(name) /\ transports' = transports ]_vars

\* after a successful replacement, a call with a name that is not registered
\* returned the error; the registry still holds the replaced entry
C15_Witness ==
    /\ replaceErr.kind = "notfound"
    /\ \A i \in DOMAIN transports : transports[i].name # replaceErr.cause.who
    /\ \E i \in DOMAIN transports : transports[i].rtg = NewFactory

\* C16 (as claimed): the names of the registry's transports are pairwise
\* distinct in every state of a kindling value.
C16_Claim == UniqueNames(transports)

\* C17: a RoundTrip that starts after ReplaceTransport(name, rt) succeeded
\* hands rt to the worker of the entry called name, also when the client was
\* returned by NewHTTPClient before the replacement.
C17_ReplaceSeenByClient ==
    [][ FanOut =>
          \A name \in ReplaceNames :
              installed[name] # NoFactory =>
                  LET i == FirstNamed(transports, name)
                  IN  wpc'[i] = "connecting" /\ wfac'[i] = installed[name] ]_vars

\* the client existed before every replacement, and the worker of a replaced
\* entry was handed the new factory and published its connection
C17_Witness ==
    \E t \in Transports :
        /\ installed[transports[t].name] = NewFactory
        /\ wfac[t] = NewFactory
        /\ wpc[t] = "published"

C20_Claim ==
    built =>
        \A i, j \in DOMAIN applied :
            (i < j /\ applied[i].opt.priorityInt = applied[j].opt.priorityInt)
            => applied[i].pos < applied[j].pos

C22_BodyDuplicated ==
    pc = "sending" =>
        /\ cloned.id # req.id
        /\ cloned.id = Len(sent)
        /\ ReadAll(cloned.body) = Bytes(bodyLen)
        /\ ReadAll(req.body) = Bytes(bodyLen)

\* the second attempt with a body, after the first attempt read its clone
C22_Witness ==
    /\ pc = "sending"
    /\ Len(sent) = 2
    /\ bodyLen > 0
    /\ cloned.body.kind = "reader"
    /\ cloned.body.pos = 0

\* C23: the clone of a request whose body is nil or http.NoBody, made with
\* the empty buffer, is a new request object whose body is that same nil or
\* http.NoBody, never a reader of zero bytes.
C23_SentinelBody ==
    (pc = "sending" /\ req.body.kind \in {"nil", "NoBody"}) =>
        /\ bodyBytes = <<>>
        /\ cloned.id # req.id
        /\ cloned.body = req.body
        /\ cloned.body.kind # "reader"

\* a clone of a request that came with http.NoBody
C23_Witness ==
    /\ pc = "sending"
    /\ req.body = NoBody
    /\ cloned.body = NoBody
    /\ cloned.id = 1

\* C24: the addr every worker passes to newRoundTripper is host:port: the
\* URL's host with 443 added for https and 80 for any other scheme when it
\* has no port, the URL's host itself when it has one, and the same for every
\* worker of the RoundTrip.
C24_Claim ==
    \A t \in Transports :
        wpc[t] # "idle" =>
            /\ IsHostPort(waddr[t])
            /\ req.host.port = 0 =>
                 waddr[t].port = IF req.scheme = "https" THEN 443 ELSE 80
            /\ req.host.port # 0 => waddr[t] = req.host
            /\ \A u \in Transports : wpc[u] # "idle" => waddr[u] = waddr[t]

\* C25: the deadline of a RoundTrip is 80 s when the request's Content-Length
\* is absent or zero and 180 s otherwise, and the derived context is done
\* whenever the caller's context is.
C25_Claim ==
    pc # "start" =>
        /\ deadline = IF req.contentLength = 0 THEN 80 ELSE 180
        /\ ctxErr = "canceled" => CtxErrNow # "none"

Running == {t \in Transports : wpc[t] \in {"connecting", "connected"}}

C29_NoBlockedSend ==
    /\ Len(rtChan) + Len(sent) <= Capacity
    /\ Cardinality(Panicked) + (IF httpErrors >= NumGenerators /\ NumGenerators > 0 THEN 1 ELSE 0)
         <= Capacity
    /\ Len(rtChan) <= Capacity
    /\ Len(errCh) <= Capacity
    /\ \A t \in Transports :
         /\ wpc[t] = "connected" => ENABLED Publish(t)
         /\ wpc[t] = "connecting" => ENABLED ConnectFails(t) /\ ENABLED WorkerPanics(t)

\* RoundTrip has returned, every worker had sent its connection on rtChan
\* and one of them is still there
C29_Witness ==
    /\ pc = "done"
    /\ NumGenerators = NumTransports
    /\ Len(rtChan) + Len(sent) = Capacity
    /\ rtChan # <<>>

Late == {t \in Transports : wpc[t] = "late"}

\* C30: a worker whose connect succeeded and that finds the context cancelled
\* does not send its connection on rtChan: it accounts one failure through
\* errFunc, as a connect error does, and the engine never sends the request
\* on its connection.
C30_LateNotPublished ==
    [][/\ \A t \in Transports :
            (wpc[t] = "connected" /\ wpc'[t] # "connected" /\ CtxErrNow # "none") =>
                /\ wpc'[t] = "late"
                /\ rtChan' = rtChan
                /\ errFunc(CtxCause(CtxErrNow))
       /\ \A t \in Late : wpc'[t] = "late"
       /\ Late' \cap (Range(rtChan') \cup Range(sent') \cup inflight') = {}
       /\ cur' \notin Late']_vars

\* RoundTrip is still selecting after the timeout fired, and a worker whose
\* connect succeeded afterwards has accounted the failure
C30_Witness ==
    /\ pc = "select"
    /\ ctxErr = "deadline"
    /\ Late # {}
    /\ Last(accounted) = CtxCause("deadline")
    /\ httpErrors = 1

Entries(name) == {i \in DOMAIN transports : transports[i].name = name}
Passed(o) == {i \in DOMAIN options : options[i] = o}

\* the registry NewKindling builds from the options: nothing for a nil
\* collaborator or a nil transport, one entry for each other wrapper and
\* transport, in the caller's order, nSmart of them named "smart"
Registered(nSmart) ==
    /\ Cardinality(Entries(fronted)) = Cardinality(Passed(WithDomainFronting(OrigFactory)))
    /\ Cardinality(Entries(dnstt)) = Cardinality(Passed(WithDNSTunnel(OrigFactory)))
    /\ Cardinality(Entries(amp)) = Cardinality(Passed(WithAMPCache(OrigFactory)))
    /\ Cardinality(Entries(smart)) = nSmart
    /\ Cardinality(Entries(1)) = Cardinality(Passed(WithTransport(newTransport(1, 0, OrigFactory))))
    /\ \A i \in DOMAIN transports :
         /\ transports[i].name \in {fronted, smart, dnstt, amp, 1}
         /\ transports[i].maxLength = IF transports[i].name = amp THEN 6000 ELSE 0
    /\ transports = applyTransports(<<>>, Tagged(options))

C31_Claim ==
    [][(pc = "select" /\ pc' = "sending") => CtxErrNow = "none"]_vars

\* C32 as stated: when RoundTrip returns the all-attempts-failed error, the
\* connect of every fanned-out worker failed, no worker produced a connection
\* and no send was performed.
C32_Claim ==
    (pc = "done" /\ result.err.kind = "allfailed") =>
        /\ \A t \in roundTripperGenerators : wpc[t] = "failed"
        /\ sent = <<>>

\* C32: when RoundTrip returns the all-attempts-failed error, every
\* fanned-out worker's attempt has failed, by a connect error, by finding the
\* context cancelled after connecting, or by an error of the send on its
\* connection; no response was received, and the error carries the cause of
\* a failure that was accounted.
C32_AllAttemptsFailed ==
    (pc = "done" /\ result.err.kind = "allfailed") =>
        /\ httpErrors = NumGenerators
        /\ \A t \in roundTripperGenerators :
             \/ wpc[t] \in {"failed", "late"}
             \/ wpc[t] = "published" /\ t \in Range(sent) /\ SendCause(t) \in Range(accounted)
        /\ responses = <<>>
        /\ result.resp = NoResp
        /\ result.err.cause \in Range(accounted)

\* the all-attempts-failed error returned after a send was performed and failed
C32_Witness ==
    /\ pc = "done"
    /\ result.err.kind = "allfailed"
    /\ sent # <<>>
    /\ result.err.cause.op = "send"

\* C33: every fanned-out transport connects once and its connection carries
\* at most one send, so there are at most N sends for N fanned-out workers;
\* and the loop goes on for N sends: it gives up with the generic error only
\* after a send on each of the N connections.
C33_Claim ==
    /\ Len(sent) <= NumGenerators
    /\ \A i, j \in DOMAIN sent : sent[i] = sent[j] => i = j
    /\ (pc = "done" /\ result.err = GenericErr) => Len(sent) = NumGenerators

C35_Claim ==
    (ReadFails(req.body) /\ pc = "sending") =>
        /\ bodyBytes = <<>>
        /\ cloned.id # req.id
        /\ ~ReadFails(cloned.body)
        /\ ReadAll(cloned.body) = <<>>

\* C36: RoundTrip reads the entries of the registry only while no
\* ReplaceTransport call that writes one is between taking the mutex and
\* releasing it, and
\* the calls of ReplaceTransport take effect one after the other: the one
\* holding the mutex leaves the registry as its replacement alone makes it,
\* and no other call gets the mutex before.
C36_Claim ==
    [][/\ FanOut => (mu.holder = 0 \/ FirstNamed(transports, mu.name) = 0)
       /\ (mu.holder # 0 /\ mu' # mu) =>
            /\ mu' = Unlocked
            /\ transports' = replaced(transports, mu.name, mu.rtg)
       /\ mu.holder # 0 => transports' = transports \/ mu' = Unlocked]_vars

\* C37: no step of a RoundTrip changes the registry: its entries, their
\* order, names, maxLength values and factories stay what they were, whether
\* the RoundTrip ends with a response, after failed sends, with the
\* all-attempts-failed error, a panic error or the context's error.
C37_RegistryUntouched ==
    [][transports' = transports /\ Len(transports') = NumTransports]_vars

\* RoundTrip has returned a worker's panic error after a send had failed,
\* and the registry is the one it started with
C37_Witness ==
    /\ pc = "done"
    /\ result.err.kind = "panic"
    /\ sent # <<>>
    /\ transports = [i \in 1..NumTransports |-> newTransport(i, 0, OrigFactory)]

C39_Claim ==
    (pc # "start" /\ NumGenerators = 0) =>
        /\ pc = "select" => ENABLED (RecvReady \/ RecvErr \/ CtxDone)
        /\ pc = "done" => (result.resp = NoResp /\ result.err = GenericErr)

TypeOK ==
    /\ pc \in {"start", "select", "sending", "done"}
    /\ iter \in 0..retryTimes
    /\ cur \in 0..Len(transports)
    /\ httpErrors \in 0..Len(transports)
====
